---- MODULE Spec2Model ----
(***************************************************************************)
(* A model of www/sw.js: the offline service worker that keeps versioned   *)
(* caches ("generations"), populates them from the offline.js manifest and *)
(* routes every same-origin request to one of them.                        *)
(*                                                                         *)
(* Strings are sequences of tokens, so that startsWith, substring and      *)
(* concatenation do what the code's string operations do.  Every await of  *)
(* the code is a step boundary: an action is the synchronous stretch that  *)
(* runs when the awaited operation settles, together with the operations   *)
(* that stretch issues.                                                    *)
(***************************************************************************)
EXTENDS Integers, Sequences, FiniteSets, TLC

\* ------------------------------------------------------------------ bounds
MaxTasks == 2
MaxVersion == 2
MaxWindows == 2
MaxTimers == 2

\* --------------------------------------------------------------- constants
OFFLINE_DATA_FILE == <<"offline.js">>
\* the delay of PostBroadcastMessage's setTimeout, in milliseconds
BROADCAST_DELAY == 3000
CACHE_NAME_PREFIX == "c2offline"

LocationOrigin == "https://example.com"
OtherOrigin == "https://cdn.example.net"
\* self.registration.scope, and the scope of another worker on the origin
Scope == <<LocationOrigin, "/app/">>
OtherScope == <<LocationOrigin, "/shop/">>

\* ------------------------------------------------------------ string helpers
StartsWith(s, p) == Len(p) <= Len(s) /\ SubSeq(s, 1, Len(p)) = p
Substring(s, n) == SubSeq(s, n + 1, Len(s))
Unshift(s, e) == <<e>> \o s
IndexOf(s, e) == IF \E i \in 1..Len(s) : s[i] = e
                 THEN (CHOOSE i \in 1..Len(s) : s[i] = e /\ \A j \in 1..(i-1) : s[j] # e) - 1
                 ELSE -1

\* new URL(u).origin
OriginOf(url) == url[1]

\* A relative URL handed to fetch or cache.put is resolved against the worker's
\* base URL (the scope directory); an absolute one is kept.
ResolveUrl(u) ==
    IF u[1] \in {LocationOrigin, OtherOrigin} THEN u
    ELSE IF u = <<"./">> THEN Scope
    ELSE IF u[1] = "/" THEN <<LocationOrigin, "/">> \o Tail(u)
    ELSE Scope \o u

\* ------------------------------------------------------------- cache names
GetCacheBaseName == <<CACHE_NAME_PREFIX, "-">> \o Scope
GetCacheVersionName(version) == GetCacheBaseName \o <<"-v", version>>
\* a cache of the worker registered for OtherScope
ForeignCacheName == <<CACHE_NAME_PREFIX, "-">> \o OtherScope \o <<"-v", 1>>

\* caches.keys() filtered to this scope's caches, creation order kept
RECURSIVE FilterByBaseName(_)
FilterByBaseName(cacheNames) ==
    IF cacheNames = <<>> THEN <<>>
    ELSE IF StartsWith(Head(cacheNames), GetCacheBaseName)
         THEN <<Head(cacheNames)>> \o FilterByBaseName(Tail(cacheNames))
         ELSE FilterByBaseName(Tail(cacheNames))

\* ------------------------------------------------------ lazy-load patterns
PngPattern == ".*\\.png$"
MalformedPattern == "("
RegExpCompiles(p) == p # MalformedPattern
\* new RegExp(p).test(url) for a pattern that compiles
RegExpTest(p, url) == p = PngPattern /\ url[Len(url)] \in {"a.png"}

\* The value read from storage: either no list (null / undefined) or a list.
NoList == [defined |-> FALSE, list |-> <<>>]
SomeList(l) == [defined |-> TRUE, list |-> l]

\* The for-loop of IsUrlInLazyLoadList: "match", "nomatch", or "throw" when
\* new RegExp() throws, which leaves the loop.
RECURSIVE LazyLoop(_, _)
LazyLoop(url, patterns) ==
    IF patterns = <<>> THEN "nomatch"
    ELSE IF ~RegExpCompiles(Head(patterns)) THEN "throw"
    ELSE IF RegExpTest(Head(patterns), url) THEN "match"
    ELSE LazyLoop(url, Tail(patterns))

IsUrlInLazyLoadList(url, lazyLoadList) ==
    IF ~lazyLoadList.defined THEN FALSE
    ELSE LazyLoop(url, lazyLoadList.list) = "match"

\* ------------------------------------------------------------ main page URL
\* GetMainPageUrl's loop over the URLs of the window clients, in the order
\* clients.matchAll() returned them.
RECURSIVE MainPageOf(_)
MainPageOf(clientUrls) ==
    IF clientUrls = <<>> THEN <<>>
    ELSE LET full == Head(clientUrls)
             url == IF StartsWith(full, Scope) THEN Substring(full, Len(Scope)) ELSE full
         IN IF url # <<>> /\ url # <<"/">>
            THEN IF url[1] = "?" THEN <<"/">> \o url ELSE url
            ELSE MainPageOf(Tail(clientUrls))

\* ------------------------------------------------------------------- state
VARIABLES
    env,            \* what the host provides: localforage, BroadcastChannel
    phase,          \* worker lifecycle: "parsed", "installing", "active"
    serverVersion,  \* the version the server's offline.js announces
    windows,        \* the window clients of the origin
    cacheKeys,      \* CacheStorage: <<[name, id]>> in creation order
    content,        \* Cache objects: id -> set of request URLs stored
    lazyStore,      \* localforage item LAZYLOAD_KEYNAME
    task,           \* the event tasks (HandleFetch / UpdateCheck activations)
    timers,         \* setTimeout queue of PostBroadcastMessage
    passed,         \* history: the cross-origin request last left to the browser
    session,        \* history: window -> the cache that first answered its page
    announced       \* history: the versions a ready message was posted for

vars == <<env, phase, serverVersion, windows, cacheKeys, content, lazyStore,
          task, timers, passed, session, announced>>
\* the state of the program and of its environment, without the history
prog == <<env, phase, serverVersion, windows, cacheKeys, content, lazyStore,
          task, timers>>

Tasks == 1..MaxTasks
Windows == 1..MaxWindows
Versions == 1..MaxVersion
\* one Cache object per name that can exist, plus one per handle a task holds
CacheIds == 1..(MaxVersion + 1 + MaxTasks)

NoReq == [url |-> <<>>, mode |-> "none"]
NoName == <<>>

Req(url, mode) == [url |-> url, mode |-> mode]
SameOriginRequests ==
    { Req(Scope \o <<"index.html">>, "navigate"),
      Req(Scope \o <<"a.js">>, "no-cors"),
      Req(Scope \o <<"a.png">>, "no-cors"),
      Req(Scope \o <<"a.txt">>, "cors") }
CrossOriginRequests ==
    { Req(<<OtherOrigin, "/lib.js">>, "no-cors"),
      Req(<<OtherOrigin, "/page.html">>, "navigate") }
Requests == SameOriginRequests \cup CrossOriginRequests

\* offline.js contents the server may serve
FileLists == { <<<<"index.html">>, <<"a.js">>>> }
LazyLoadLists ==
    { NoList, SomeList(<<PngPattern>>), SomeList(<<MalformedPattern, PngPattern>>) }

ClosedWindow == [open |-> FALSE, controlled |-> FALSE, url |-> <<>>]
\* the page that registers the worker: open, and not yet controlled by it
RegisteringPages == { Scope, Scope \o <<"?", "foo=bar">> }

IdleTask ==
    [ kind |-> "idle", pc |-> "idle",
      \* HandleFetch
      req |-> NoReq, win |-> 0, avail |-> <<>>, nclients |-> -1,
      pendingDel |-> {}, useName |-> NoName, cache |-> 0,
      result |-> "none", lazyRead |-> NoList, stored |-> "none",
      \* UpdateCheck
      isFirst |-> FALSE, version |-> 0, fileList |-> <<>>, lazy |-> NoList,
      cacheExists |-> FALSE, responses |-> <<>>, pendingPut |-> {},
      delPending |-> FALSE, posted |-> <<>>, fetches |-> 0, outcome |-> "none" ]

Msg(type, version) == [type |-> type, version |-> version]

\* ------------------------------------------------------------ CacheStorage
KeyNames(keys) == [i \in 1..Len(keys) |-> keys[i].name]
HasCache(keys, name) == \E i \in 1..Len(keys) : keys[i].name = name
IdOf(keys, name) == (CHOOSE i \in 1..Len(keys) : keys[i].name = name)
CacheIdOf(keys, name) == keys[IdOf(keys, name)].id

UsedIds(keys, tk) ==
    {keys[i].id : i \in 1..Len(keys)} \cup ({tk[t].cache : t \in Tasks} \ {0})
FreshId(keys, tk) ==
    CHOOSE i \in CacheIds \ UsedIds(keys, tk) :
        \A j \in CacheIds \ UsedIds(keys, tk) : i <= j

\* a variant of DeleteCache that deletes nothing
KeepCache(keys, name) == keys
\* caches.delete(name)
RECURSIVE DeleteCache(_, _)
DeleteCache(keys, name) ==
    IF keys = <<>> THEN <<>>
    ELSE IF Head(keys).name = name THEN Tail(keys)
    ELSE <<Head(keys)>> \o DeleteCache(Tail(keys), name)

\* caches.open(name): the existing Cache, or a new empty one, listed last
OpenKeys(keys, tk, name) ==
    IF HasCache(keys, name) THEN keys
    ELSE Append(keys, [name |-> name, id |-> FreshId(keys, tk)])

\* GetAvailableCacheNames
GetAvailableCacheNames(keys) == FilterByBaseName(KeyNames(keys))
\* a variant of IsUpdatePending that is content with one cache
IsAnyCacheAvailable(keys) == Len(GetAvailableCacheNames(keys)) >= 1
\* IsUpdatePending
IsUpdatePending(keys) == Len(GetAvailableCacheNames(keys)) >= 2

\* The new storage and task state of a step.  A Cache object that no name and
\* no task refers to any more cannot be observed again: its content is dropped.
Commit(keys, cont, tk) ==
    /\ cacheKeys' = keys
    /\ task' = tk
    /\ content' = [i \in CacheIds |-> IF i \in UsedIds(keys, tk) THEN cont[i] ELSE {}]

\* PostBroadcastMessage: nothing without a BroadcastChannel; otherwise the
\* message waits in the timer queue.  A full queue means its oldest timer has
\* already fired.
PostBroadcastMessage(q, o) ==
    IF ~env.broadcastChannel THEN q
    ELSE IF Len(q) >= MaxTimers THEN Append(Tail(q), o)
    ELSE Append(q, o)

ControlledCount == Cardinality({w \in Windows : windows[w].open /\ windows[w].controlled})
OpenWindows == {w \in Windows : windows[w].open}
Orderings(S) == {f \in [1..Cardinality(S) -> S] : \A i, j \in 1..Cardinality(S) : f[i] = f[j] => i = j}

Init ==
    /\ env \in [localforage : BOOLEAN, broadcastChannel : BOOLEAN]
    /\ phase = "parsed"
    /\ serverVersion = 1
    /\ \E page \in RegisteringPages :
         windows = [w \in Windows |->
                      IF w = 1 THEN [open |-> TRUE, controlled |-> FALSE, url |-> page]
                      ELSE ClosedWindow]
    /\ cacheKeys = <<[name |-> ForeignCacheName, id |-> 1]>>
    /\ content = [i \in CacheIds |-> {}]
    /\ lazyStore = NoList
    /\ task = [t \in Tasks |-> IdleTask]
    /\ timers = <<>>
    /\ passed = NoReq
    /\ session = [w \in Windows |-> NoName]
    /\ announced = {}

\* ------------------------------------------------------------- environment
\* the server publishes a new version of the application
Deploy ==
    /\ serverVersion < MaxVersion
    /\ serverVersion' = serverVersion + 1
    /\ UNCHANGED <<env, phase, windows, cacheKeys, content, lazyStore, task, timers>>

\* a window is closed
CloseWindow(w) ==
    /\ windows[w].open
    /\ windows' = [windows EXCEPT ![w] = ClosedWindow]
    /\ UNCHANGED <<env, phase, serverVersion, cacheKeys, content, lazyStore, task, timers>>

\* a variant of BroadcastDelay that holds the downloading messages back longer
DelayByType(o) ==
    IF o.type \in {"downloading", "downloading-update"}
    THEN 2 * BROADCAST_DELAY ELSE BROADCAST_DELAY
\* the delay PostBroadcastMessage gives the timer of message o
BroadcastDelay(o) == BROADCAST_DELAY
\* timers holds the pending timers in the order they were set.  A timer fires
\* after every timer set before it with a delay that is not longer.
MayFire(q, i) == \A j \in 1..(i - 1) : BroadcastDelay(q[j]) > BroadcastDelay(q[i])
RemoveAt(q, i) == SubSeq(q, 1, i - 1) \o SubSeq(q, i + 1, Len(q))

\* a timer of PostBroadcastMessage fires: broadcastChannel.postMessage(o)
DeliverBroadcast(i) ==
    /\ i \in 1..Len(timers)
    /\ MayFire(timers, i)
    /\ timers' = RemoveAt(timers, i)
    /\ UNCHANGED <<env, phase, serverVersion, windows, cacheKeys, content, lazyStore, task>>

\* ------------------------------------------------------------ fetch events
\* a variant of IsCrossOrigin that lets every request in
IsNeverCrossOrigin(req) == FALSE
\* the fetch listener's test of the request's origin
IsCrossOrigin(req) == OriginOf(req.url) # LocationOrigin
DoUpdateCheck(req) == req.mode = "navigate"

IdleTasks == {t \in Tasks : task[t].kind = "idle"}
FirstIdle == CHOOSE t \in IdleTasks : \A u \in IdleTasks : t <= u

\* The fetch listener, for a request of window w.  A cross-origin request is
\* left to the browser; any other starts HandleFetch, which runs up to its
\* first await (caches.keys()).
FetchEvent(req, w) ==
    /\ phase = "active"
    /\ DoUpdateCheck(req) \/ (windows[w].open /\ windows[w].controlled)
    /\ IF IsCrossOrigin(req)
       THEN UNCHANGED task
       ELSE /\ IdleTasks # {}
            /\ task' = [task EXCEPT ![FirstIdle] =
                          [IdleTask EXCEPT !.kind = "fetch", !.pc = "h_keys",
                                           !.req = req, !.win = w]]
    /\ UNCHANGED <<env, phase, serverVersion, windows, cacheKeys, content,
                   lazyStore, timers>>

\* GetCacheNameToUse, first branch: the oldest cache, without asking for clients
UsesOldestAtOnce(availableCacheNames, doUpdateCheck) ==
    Len(availableCacheNames) = 1 \/ ~doUpdateCheck
\* a variant of KeepsOldCaches that needs a third client
KeepsOldCachesForThree(clientCount) == clientCount > 2
\* GetCacheNameToUse, second branch: other clients are open, expire nothing
KeepsOldCaches(clientCount) == clientCount > 1
\* a variant of LatestCacheName that keeps the oldest cache
EarliestCacheName(availableCacheNames) == availableCacheNames[1]
\* GetCacheNameToUse, upgrade: the cache to use and the caches to delete
LatestCacheName(availableCacheNames) == availableCacheNames[Len(availableCacheNames)]
CachesToExpire(availableCacheNames) ==
    {availableCacheNames[i] : i \in 1..(Len(availableCacheNames) - 1)}

\* caches.keys() resolves in HandleFetch
HKeys(t) ==
    /\ task[t].pc = "h_keys"
    /\ LET avail == GetAvailableCacheNames(cacheKeys)
           r == [task[t] EXCEPT !.avail = avail]
       IN task' = [task EXCEPT ![t] =
            IF Len(avail) = 0 THEN [r EXCEPT !.pc = "h_net"]
            ELSE IF UsesOldestAtOnce(avail, DoUpdateCheck(r.req))
                 THEN [r EXCEPT !.useName = avail[1], !.pc = "h_open"]
                 ELSE [r EXCEPT !.pc = "h_clients"]]
    /\ UNCHANGED <<env, phase, serverVersion, windows, cacheKeys, content,
                   lazyStore, timers>>

\* no cache available: the plain fetch(event.request) settles
HNet(t, ok) ==
    /\ task[t].pc = "h_net"
    /\ task' = [task EXCEPT ![t].pc = "h_done",
                            ![t].result = IF ok THEN "network" ELSE "network-error"]
    /\ UNCHANGED <<env, phase, serverVersion, windows, cacheKeys, content,
                   lazyStore, timers>>

\* clients.matchAll() resolves in GetCacheNameToUse
HClients(t) ==
    /\ task[t].pc = "h_clients"
    /\ LET r == [task[t] EXCEPT !.nclients = ControlledCount]
       IN task' = [task EXCEPT ![t] =
            IF KeepsOldCaches(r.nclients)
            THEN [r EXCEPT !.useName = r.avail[1], !.pc = "h_open"]
            ELSE [r EXCEPT !.useName = LatestCacheName(r.avail),
                           !.pendingDel = CachesToExpire(r.avail),
                           !.pc = "h_evict"]]
    /\ UNCHANGED <<env, phase, serverVersion, windows, cacheKeys, content,
                   lazyStore, timers>>

\* one caches.delete(c) of the upgrade completes; after the last, caches.open
HEvict(t, name) ==
    /\ task[t].pc = "h_evict"
    /\ name \in task[t].pendingDel
    /\ LET left == task[t].pendingDel \ {name}
       IN Commit(DeleteCache(cacheKeys, name), content,
                 [task EXCEPT ![t].pendingDel = left,
                              ![t].pc = IF left = {} THEN "h_open" ELSE "h_evict"])
    /\ UNCHANGED <<env, phase, serverVersion, windows, lazyStore, timers>>

\* caches.open(useCacheName) settles
HOpen(t, ok) ==
    /\ task[t].pc = "h_open"
    /\ IF ok
       THEN LET keys == OpenKeys(cacheKeys, task, task[t].useName)
            IN Commit(keys, content,
                      [task EXCEPT ![t].cache = CacheIdOf(keys, task[t].useName),
                                   ![t].pc = "h_match"])
       ELSE Commit(cacheKeys, content,
                   [task EXCEPT ![t].result = "storage-error", ![t].pc = "h_done"])
    /\ UNCHANGED <<env, phase, serverVersion, windows, lazyStore, timers>>

\* cache.match(event.request) resolves
HMatch(t) ==
    /\ task[t].pc = "h_match"
    /\ task' = [task EXCEPT ![t] =
         IF task[t].req.url \in content[task[t].cache]
         THEN [@ EXCEPT !.result = "cached", !.pc = "h_done"]
         ELSE [@ EXCEPT !.pc = "h_miss"]]
    /\ UNCHANGED <<env, phase, serverVersion, windows, cacheKeys, content,
                   lazyStore, timers>>

\* ReadLazyLoadListFromStorage
ReadLazyLoadListFromStorage == IF env.localforage THEN lazyStore ELSE SomeList(<<>>)

\* Promise.all([fetch(event.request), ReadLazyLoadListFromStorage()]) settles
HMiss(t, fetchOk, readOk) ==
    /\ task[t].pc = "h_miss"
    /\ ~readOk => env.localforage
    /\ task' = [task EXCEPT ![t] =
         IF ~fetchOk THEN [@ EXCEPT !.result = "network-error", !.pc = "h_done"]
         ELSE IF ~readOk THEN [@ EXCEPT !.result = "storage-error", !.pc = "h_done"]
         ELSE IF IsUrlInLazyLoadList(@.req.url, ReadLazyLoadListFromStorage)
              THEN [@ EXCEPT !.lazyRead = ReadLazyLoadListFromStorage, !.pc = "h_put"]
              ELSE [@ EXCEPT !.lazyRead = ReadLazyLoadListFromStorage,
                             !.result = "network", !.pc = "h_done"]]
    /\ UNCHANGED <<env, phase, serverVersion, windows, cacheKeys, content,
                   lazyStore, timers>>

\* cache.put(event.request, fetchResponse.clone()) settles; a failure is caught
HPut(t, ok) ==
    /\ task[t].pc = "h_put"
    /\ Commit(cacheKeys,
              IF ok THEN [content EXCEPT ![task[t].cache] = @ \cup {task[t].req.url}]
              ELSE content,
              [task EXCEPT ![t].stored = IF ok THEN "stored" ELSE "failed",
                           ![t].result = "network",
                           ![t].pc = "h_done"])
    /\ UNCHANGED <<env, phase, serverVersion, windows, lazyStore, timers>>

\* The response promise has settled: result says how ("cached", "network", or
\* rejected with a "network-error" or a "storage-error"), stored what became of
\* the lazy copy.  A navigation that got a response loads
\* its page, which this worker now controls, and then() starts UpdateCheck(false)
\* up to its first await, the manifest fetch.
Answered(r) == DoUpdateCheck(r.req) /\ r.result \in {"cached", "network"}
HFinish(t) ==
    /\ task[t].pc = "h_done"
    /\ windows' = IF Answered(task[t])
                  THEN [windows EXCEPT ![task[t].win] =
                          [open |-> TRUE, controlled |-> TRUE, url |-> task[t].req.url]]
                  ELSE windows
    /\ Commit(cacheKeys, content,
              [task EXCEPT ![t] =
                 IF Answered(task[t])
                 THEN [IdleTask EXCEPT !.kind = "check", !.pc = "u_manifest"]
                 ELSE IdleTask])
    /\ UNCHANGED <<env, phase, serverVersion, lazyStore, timers>>

\* ------------------------------------------------------------- UpdateCheck
\* a variant of AllOk that looks at the last response only
LastOk(responses) == responses[Len(responses)]

\* CreateCacheFromFileList's check of the responses: every response is ok
AllOk(responses) == \A i \in 1..Len(responses) : responses[i]

\* a variant of WithImplicitFiles that leaves the root out
WithMainPageOnly(fileList, mainPageUrl) ==
    IF mainPageUrl # <<>> /\ IndexOf(fileList, mainPageUrl) = -1
    THEN Unshift(fileList, mainPageUrl)
    ELSE fileList

\* the file list UpdateCheck hands to CreateCacheFromFileList
WithImplicitFiles(fileList, mainPageUrl) ==
    LET withRoot == Unshift(fileList, <<"./">>)
    IN IF mainPageUrl # <<>> /\ IndexOf(withRoot, mainPageUrl) = -1
       THEN Unshift(withRoot, mainPageUrl)
       ELSE withRoot

\* a variant of DownloadingMsg that takes every check for the first
DownloadingAlways(isFirst, version) == Msg("downloading", 0)
\* Broadcast("downloading") or BroadcastDownloadingUpdate(version)
DownloadingMsg(isFirst, version) ==
    IF isFirst THEN Msg("downloading", 0) ELSE Msg("downloading-update", version)
\* the message of an update check that found its cache existing
PendingMsg(isUpdatePending) ==
    IF isUpdatePending THEN Msg("update-pending", 0) ELSE Msg("up-to-date", 0)
\* the message of an update check whose cache was written
ReadyMsg(isUpdatePending, version) ==
    IF isUpdatePending THEN Msg("update-ready", version) ELSE Msg("offline-ready", 0)

\* the install event: UpdateCheck(true) runs up to the manifest fetch
InstallEvent ==
    /\ phase = "parsed"
    /\ phase' = "installing"
    /\ task' = [task EXCEPT ![1] =
                  [IdleTask EXCEPT !.kind = "check", !.pc = "u_manifest", !.isFirst = TRUE]]
    /\ UNCHANGED <<env, serverVersion, windows, cacheKeys, content, lazyStore, timers>>

\* the manifest fetch rejects, answers with an error status, or is not JSON
UManifestFails(t) ==
    /\ task[t].pc = "u_manifest"
    /\ task' = [task EXCEPT ![t].outcome = "manifest-failed", ![t].pc = "u_done"]
    /\ UNCHANGED <<env, phase, serverVersion, windows, cacheKeys, content,
                   lazyStore, timers>>

\* fetchWithBypass(OFFLINE_DATA_FILE, true) and response.json() resolve;
\* caches.has(currentCacheName) is asked next
UManifest(t, fileList, lazyLoadList) ==
    /\ task[t].pc = "u_manifest"
    /\ task' = [task EXCEPT ![t].version = serverVersion, ![t].fileList = fileList,
                            ![t].lazy = lazyLoadList, ![t].pc = "u_has"]
    /\ UNCHANGED <<env, phase, serverVersion, windows, cacheKeys, content,
                   lazyStore, timers>>

\* a variant of UHas that takes the cache for existing while another check
\* is filling it
Populating(u) ==
    task[u].kind = "check" /\ task[u].pc \in {"u_main", "u_lazy", "u_fetch", "u_open", "u_put"}
UHasExclusive(t) ==
    /\ task[t].pc = "u_has"
    /\ LET exists == \/ HasCache(cacheKeys, GetCacheVersionName(task[t].version))
                     \/ \E u \in Tasks \ {t} :
                          Populating(u) /\ task[u].version = task[t].version
       IN task' = [task EXCEPT ![t].cacheExists = exists,
                               ![t].pc = IF exists THEN "u_pending" ELSE "u_main"]
    /\ UNCHANGED <<env, phase, serverVersion, windows, cacheKeys, content,
                   lazyStore, timers>>

\* caches.has(currentCacheName) resolves
UHas(t) ==
    /\ task[t].pc = "u_has"
    /\ LET exists == HasCache(cacheKeys, GetCacheVersionName(task[t].version))
       IN task' = [task EXCEPT ![t].cacheExists = exists,
                               ![t].pc = IF exists THEN "u_pending" ELSE "u_main"]
    /\ UNCHANGED <<env, phase, serverVersion, windows, cacheKeys, content,
                   lazyStore, timers>>

\* the cache exists: IsUpdatePending() resolves, one message is broadcast
UPending(t) ==
    /\ task[t].pc = "u_pending"
    /\ LET m == PendingMsg(IsUpdatePending(cacheKeys))
       IN /\ timers' = PostBroadcastMessage(timers, m)
          /\ task' = [task EXCEPT ![t].posted = Append(@, m),
                                  ![t].outcome = m.type, ![t].pc = "u_done"]
    /\ UNCHANGED <<env, phase, serverVersion, windows, cacheKeys, content, lazyStore>>

\* GetMainPageUrl's clients.matchAll() resolves with the windows in some
\* order: the file list is completed, the download is announced, and either
\* the lazy-load list is written or CreateCacheFromFileList starts its fetches
UMain(t, order) ==
    /\ task[t].pc = "u_main"
    /\ LET urls == [i \in 1..Len(order) |-> windows[order[i]].url]
           fl == WithImplicitFiles(task[t].fileList, MainPageOf(urls))
           m == DownloadingMsg(task[t].isFirst, task[t].version)
       IN /\ timers' = PostBroadcastMessage(timers, m)
          /\ task' = [task EXCEPT ![t] =
               IF @.lazy.defined
               THEN [@ EXCEPT !.fileList = fl, !.posted = Append(@, m), !.pc = "u_lazy"]
               ELSE [@ EXCEPT !.fileList = fl, !.posted = Append(@, m),
                              !.fetches = Len(fl), !.pc = "u_fetch"]]
    /\ UNCHANGED <<env, phase, serverVersion, windows, cacheKeys, content, lazyStore>>

\* a variant of WriteLazyLoadListToStorage that adds to the stored list
AppendLazyLoadListToStorage(lazyLoadList) ==
    IF env.localforage THEN SomeList(lazyStore.list \o lazyLoadList.list) ELSE lazyStore
\* WriteLazyLoadListToStorage
WriteLazyLoadListToStorage(lazyLoadList) ==
    IF env.localforage THEN lazyLoadList ELSE lazyStore

\* the lazy-load list write settles; then CreateCacheFromFileList starts
ULazy(t, ok) ==
    /\ task[t].pc = "u_lazy"
    /\ ~ok => env.localforage
    /\ IF ok
       THEN /\ lazyStore' = WriteLazyLoadListToStorage(task[t].lazy)
            /\ task' = [task EXCEPT ![t].fetches = Len(task[t].fileList),
                                    ![t].pc = "u_fetch"]
       ELSE /\ UNCHANGED lazyStore
            /\ task' = [task EXCEPT ![t].outcome = "failed", ![t].pc = "u_done"]
    /\ UNCHANGED <<env, phase, serverVersion, windows, cacheKeys, content, timers>>

\* Promise.all of the file fetches rejects: a fetch failed on the network
UFetchRejects(t) ==
    /\ task[t].pc = "u_fetch"
    /\ task' = [task EXCEPT ![t].outcome = "fetch-rejected", ![t].pc = "u_done"]
    /\ UNCHANGED <<env, phase, serverVersion, windows, cacheKeys, content,
                   lazyStore, timers>>

\* Promise.all of the file fetches resolves with one response per file
UFetch(t, responses) ==
    /\ task[t].pc = "u_fetch"
    /\ Len(responses) = Len(task[t].fileList)
    /\ task' = [task EXCEPT ![t] =
         IF AllOk(responses)
         THEN [@ EXCEPT !.responses = responses, !.pc = "u_open"]
         ELSE [@ EXCEPT !.responses = responses, !.outcome = "fetch-failed",
                        !.pc = "u_done"]]
    /\ UNCHANGED <<env, phase, serverVersion, windows, cacheKeys, content,
                   lazyStore, timers>>

\* caches.open(cacheName) settles in CreateCacheFromFileList; every cache.put starts
UOpen(t, ok) ==
    /\ task[t].pc = "u_open"
    /\ IF ok
       THEN LET name == GetCacheVersionName(task[t].version)
                keys == OpenKeys(cacheKeys, task, name)
            IN Commit(keys, content,
                      [task EXCEPT ![t].cache = CacheIdOf(keys, name),
                                   ![t].pendingPut = 1..Len(task[t].fileList),
                                   ![t].pc = "u_put"])
       ELSE Commit(cacheKeys, content,
                   [task EXCEPT ![t].outcome = "failed", ![t].pc = "u_done"])
    /\ UNCHANGED <<env, phase, serverVersion, windows, lazyStore, timers>>

\* cache.put(fileList[i], response)
PutEntry(cont, id, fileUrl) == [cont EXCEPT ![id] = @ \cup {ResolveUrl(fileUrl)}]

\* one cache.put settles.  The last success resolves Promise.all and
\* IsUpdatePending() is asked.  A failure rejects it: caches.delete(cacheName)
\* is started and UpdateCheck returns through its catch, which also settles
\* the install event's waitUntil.
UPut(t, i, ok) ==
    /\ task[t].pc = "u_put"
    /\ i \in task[t].pendingPut
    /\ LET left == task[t].pendingPut \ {i}
       IN IF ok
          THEN /\ Commit(cacheKeys, PutEntry(content, task[t].cache, task[t].fileList[i]),
                         [task EXCEPT ![t].pendingPut = left,
                                      ![t].pc = IF left = {} THEN "u_ready" ELSE "u_put"])
               /\ UNCHANGED phase
          ELSE /\ Commit(cacheKeys, content,
                         [task EXCEPT ![t].pendingPut = left, ![t].delPending = TRUE,
                                      ![t].outcome = "write-failed",
                                      ![t].pc = "u_rollback"])
               /\ phase' = IF task[t].isFirst THEN "active" ELSE phase
    /\ UNCHANGED <<env, serverVersion, windows, lazyStore, timers>>

\* after the failure, before the delete completes: a cache.put still in
\* flight lands in the cache (one that fails too changes nothing)
URollbackPut(t, i) ==
    /\ task[t].pc = "u_rollback"
    /\ i \in task[t].pendingPut
    /\ Commit(cacheKeys, PutEntry(content, task[t].cache, task[t].fileList[i]),
              [task EXCEPT ![t].pendingPut = @ \ {i}])
    /\ UNCHANGED <<env, phase, serverVersion, windows, lazyStore, timers>>

\* after the failure: caches.delete(cacheName) completes.  What is still
\* written through the handle goes to a Cache no name refers to.
URollbackDelete(t) ==
    /\ task[t].pc = "u_rollback"
    /\ task[t].delPending
    /\ Commit(DeleteCache(cacheKeys, GetCacheVersionName(task[t].version)), content,
              [task EXCEPT ![t].delPending = FALSE, ![t].pendingPut = {},
                           ![t].cache = 0, ![t].pc = "u_done"])
    /\ UNCHANGED <<env, phase, serverVersion, windows, lazyStore, timers>>

\* every entry is written: IsUpdatePending() resolves, the result is broadcast
UReady(t) ==
    /\ task[t].pc = "u_ready"
    /\ LET m == ReadyMsg(IsUpdatePending(cacheKeys), task[t].version)
       IN /\ timers' = PostBroadcastMessage(timers, m)
          /\ task' = [task EXCEPT ![t].posted = Append(@, m),
                                  ![t].outcome = m.type, ![t].pc = "u_done"]
    /\ UNCHANGED <<env, phase, serverVersion, windows, cacheKeys, content, lazyStore>>

\* UpdateCheck has returned and nothing of it is in flight.  The install
\* event's waitUntil is settled by the first check: the worker activates.
UFinish(t) ==
    /\ task[t].pc = "u_done"
    /\ phase' = IF task[t].isFirst THEN "active" ELSE phase
    /\ Commit(cacheKeys, content, [task EXCEPT ![t] = IdleTask])
    /\ UNCHANGED <<env, serverVersion, windows, lazyStore, timers>>

\* ----------------------------------------------------------------- history
\* passed: a fetch event records the request when it is left to the browser
RecordPassed(req) == passed' = IF OriginOf(req.url) # LocationOrigin THEN req ELSE NoReq

\* session[w]: the cache that answered the first request of w's page which was
\* answered from a cache; forgotten when w loads a new page or closes
JustDone(t) == task'[t].pc = "h_done" /\ task[t].pc # "h_done"
ServedFromCache(r) == ~DoUpdateCheck(r.req) /\ r.result = "cached"
RecordSession ==
    session' = [w \in Windows |->
        IF ~(windows'[w].open /\ windows'[w].controlled) THEN NoName
        ELSE IF \E t \in Tasks : task[t].pc = "h_done" /\ task'[t].pc # "h_done"
                                 /\ task[t].win = w /\ Answered(task[t])
             THEN NoName
        ELSE IF session[w] = NoName
                /\ \E t \in Tasks : JustDone(t) /\ task'[t].win = w
                                    /\ ServedFromCache(task'[t])
             THEN LET t == CHOOSE t \in Tasks : JustDone(t) /\ task'[t].win = w
                                                /\ ServedFromCache(task'[t])
                  IN task'[t].useName
        ELSE session[w]]

\* ------------------------------------------------------------ specification
Quiet == UNCHANGED <<passed, session, announced>>
NoEventInFlight == timers = <<>> /\ \A t \in Tasks : task[t].kind = "idle"
ResponseVectors == UNION {[1..n -> BOOLEAN] : n \in 2..4}

\* Spec: the worker handles one event at a time (an event arrives when the
\* work of the previous one has ended and its broadcasts are delivered), with
\* every input and every failure of the network and of the storage.  The
\* history variables are not recorded.
Next ==
    \/ Deploy /\ Quiet
    \/ \E w \in Windows : CloseWindow(w) /\ Quiet
    \/ \E i \in 1..MaxTimers : DeliverBroadcast(i) /\ Quiet
    \/ InstallEvent /\ Quiet
    \/ \E req \in Requests, w \in Windows :
         NoEventInFlight /\ FetchEvent(req, w) /\ Quiet
    \/ \E t \in Tasks : HKeys(t) /\ Quiet
    \/ \E t \in Tasks, ok \in BOOLEAN : HNet(t, ok) /\ Quiet
    \/ \E t \in Tasks : HClients(t) /\ Quiet
    \/ \E t \in Tasks, v \in Versions : HEvict(t, GetCacheVersionName(v)) /\ Quiet
    \/ \E t \in Tasks, ok \in BOOLEAN : HOpen(t, ok) /\ Quiet
    \/ \E t \in Tasks : HMatch(t) /\ Quiet
    \/ \E t \in Tasks, fetchOk \in BOOLEAN, readOk \in BOOLEAN :
         HMiss(t, fetchOk, readOk) /\ Quiet
    \/ \E t \in Tasks, ok \in BOOLEAN : HPut(t, ok) /\ Quiet
    \/ \E t \in Tasks : HFinish(t) /\ Quiet
    \/ \E t \in Tasks : UManifestFails(t) /\ Quiet
    \/ \E t \in Tasks, fl \in FileLists, ll \in LazyLoadLists : UManifest(t, fl, ll) /\ Quiet
    \/ \E t \in Tasks : UHas(t) /\ Quiet
    \/ \E t \in Tasks : UPending(t) /\ Quiet
    \/ \E t \in Tasks, order \in Orderings(OpenWindows) : UMain(t, order) /\ Quiet
    \/ \E t \in Tasks, ok \in BOOLEAN : ULazy(t, ok) /\ Quiet
    \/ \E t \in Tasks : UFetchRejects(t) /\ Quiet
    \/ \E t \in Tasks, responses \in ResponseVectors : UFetch(t, responses) /\ Quiet
    \/ \E t \in Tasks, ok \in BOOLEAN : UOpen(t, ok) /\ Quiet
    \/ \E t \in Tasks, i \in 1..4, ok \in BOOLEAN : UPut(t, i, ok) /\ Quiet
    \/ \E t \in Tasks, i \in 1..4 : URollbackPut(t, i) /\ Quiet
    \/ \E t \in Tasks : URollbackDelete(t) /\ Quiet
    \/ \E t \in Tasks : UReady(t) /\ Quiet
    \/ \E t \in Tasks : UFinish(t) /\ Quiet

Spec == Init /\ [][Next]_vars


\* SpecHistory: one event at a time as in Spec, on a host without localforage
\* and BroadcastChannel, where nothing fails but the manifest fetch and the
\* manifest has no lazy-load list; the history variables are recorded.
HistoryRequests ==
    { Req(Scope \o <<"index.html">>, "navigate"), Req(Scope \o <<"a.js">>, "no-cors"),
      Req(Scope \o <<"a.txt">>, "cors") } \cup CrossOriginRequests

HistoryInit ==
    /\ Init
    /\ env = [localforage |-> FALSE, broadcastChannel |-> FALSE]
    /\ windows[1].url = Scope

HistoryNext ==
    \/ Deploy /\ RecordSession /\ UNCHANGED <<passed, announced>>
    \/ \E w \in Windows : CloseWindow(w) /\ RecordSession /\ UNCHANGED <<passed, announced>>
    \/ InstallEvent /\ RecordSession /\ UNCHANGED <<passed, announced>>
    \/ \E req \in HistoryRequests, w \in Windows :
         NoEventInFlight /\ FetchEvent(req, w) /\ RecordPassed(req) /\ RecordSession
           /\ UNCHANGED announced
    \/ \E t \in Tasks : HKeys(t) /\ RecordSession /\ UNCHANGED <<passed, announced>>
    \/ \E t \in Tasks : HNet(t, TRUE) /\ RecordSession /\ UNCHANGED <<passed, announced>>
    \/ \E t \in Tasks : HClients(t) /\ RecordSession /\ UNCHANGED <<passed, announced>>
    \/ \E t \in Tasks, v \in Versions :
         HEvict(t, GetCacheVersionName(v)) /\ RecordSession /\ UNCHANGED <<passed, announced>>
    \/ \E t \in Tasks : HOpen(t, TRUE) /\ RecordSession /\ UNCHANGED <<passed, announced>>
    \/ \E t \in Tasks : HMatch(t) /\ RecordSession /\ UNCHANGED <<passed, announced>>
    \/ \E t \in Tasks : HMiss(t, TRUE, TRUE) /\ RecordSession /\ UNCHANGED <<passed, announced>>
    \/ \E t \in Tasks : HFinish(t) /\ RecordSession /\ UNCHANGED <<passed, announced>>
    \/ \E t \in Tasks : UManifestFails(t) /\ RecordSession /\ UNCHANGED <<passed, announced>>
    \/ \E t \in Tasks, fl \in FileLists :
         UManifest(t, fl, NoList) /\ RecordSession /\ UNCHANGED <<passed, announced>>
    \/ \E t \in Tasks : UHas(t) /\ RecordSession /\ UNCHANGED <<passed, announced>>
    \/ \E t \in Tasks : UPending(t) /\ RecordSession /\ UNCHANGED <<passed, announced>>
    \/ \E t \in Tasks, order \in Orderings(OpenWindows) :
         UMain(t, order) /\ RecordSession /\ UNCHANGED <<passed, announced>>
    \/ \E t \in Tasks, responses \in ResponseVectors :
         AllOk(responses) /\ UFetch(t, responses) /\ RecordSession /\ UNCHANGED <<passed, announced>>
    \/ \E t \in Tasks : UOpen(t, TRUE) /\ RecordSession /\ UNCHANGED <<passed, announced>>
    \/ \E t \in Tasks, i \in 1..4 : UPut(t, i, TRUE) /\ RecordSession /\ UNCHANGED <<passed, announced>>
    \/ \E t \in Tasks : UReady(t) /\ RecordSession /\ UNCHANGED <<passed, announced>>
    \/ \E t \in Tasks : UFinish(t) /\ RecordSession /\ UNCHANGED <<passed, announced>>

SpecHistory == HistoryInit /\ [][HistoryNext]_vars

\* ------------------------------------------------------------------ claims
VersionCacheId(t) == CacheIdOf(cacheKeys, GetCacheVersionName(task[t].version))
Selected(t) ==
    task[t].kind = "fetch" /\ task[t].pc \in {"h_open", "h_match", "h_miss", "h_put", "h_done"}
     /\ task[t].avail # <<>>
Opened(t) == task[t].pc \in {"h_match", "h_miss", "h_put"} \/ task[t].result = "cached"

\* C1: a populate one of whose file fetches failed (a response that is not ok,
\* or a fetch that rejected) has ended without opening the cache and without
\* issuing a write, and the cache it was to fill does not exist.
FetchFailed(r) ==
    r.kind = "check" /\ (r.outcome = "fetch-rejected"
                          \/ \E i \in 1..Len(r.responses) : ~r.responses[i])
C1_PopulateAtomicity ==
    \A t \in Tasks : FetchFailed(task[t]) =>
        /\ task[t].pc = "u_done"
        /\ task[t].cache = 0
        /\ task[t].pendingPut = {}
        /\ ~HasCache(cacheKeys, GetCacheVersionName(task[t].version))
C1_Witness ==
    \E t \in Tasks : /\ FetchFailed(task[t])
                     /\ \E i \in 1..Len(task[t].responses) : task[t].responses[i]
                     /\ ~task[t].responses[1]

\* C2: a navigation that found two caches and one client uses the newer cache:
\* once it has selected, the older cache is deleted and the newer is the only
\* one listed, the Cache it matches against is the newer one's, and a request
\* that finds a single cache listed uses that cache.
Upgrading(t) ==
    DoUpdateCheck(task[t].req) /\ Len(task[t].avail) = 2 /\ task[t].nclients = 1
C2_SingleInstanceUpgrade ==
    \A t \in Tasks : Selected(t) =>
        /\ Upgrading(t) => /\ task[t].useName = task[t].avail[2]
                           /\ GetAvailableCacheNames(cacheKeys) = <<task[t].avail[2]>>
        /\ Len(task[t].avail) = 1 => task[t].useName = task[t].avail[1]
        /\ Opened(t) => task[t].cache = CacheIdOf(cacheKeys, task[t].useName)
C2_Witness ==
    \E t \in Tasks : /\ Selected(t) /\ Upgrading(t)
                     /\ task[t].pc = "h_done" /\ task[t].result = "cached"
                     /\ task[t].req.url \in content[CacheIdOf(cacheKeys, task[t].avail[2])]

\* C3: a request that found two caches or more, and for a navigation two
\* clients or more, uses the oldest cache, deletes nothing and leaves the
\* list of caches as it found it.
C3_OldestWins ==
    \A t \in Tasks :
        (Selected(t) /\ Len(task[t].avail) >= 2
           /\ (DoUpdateCheck(task[t].req) => task[t].nclients >= 2)) =>
            /\ task[t].useName = task[t].avail[1]
            /\ task[t].pendingDel = {}
            /\ GetAvailableCacheNames(cacheKeys) = task[t].avail
            /\ Opened(t) => task[t].cache = CacheIdOf(cacheKeys, task[t].avail[1])
C3_Witness ==
    \E t \in Tasks : /\ Selected(t) /\ Len(task[t].avail) = 2
                     /\ DoUpdateCheck(task[t].req) /\ task[t].nclients = 2
                     /\ task[t].pc = "h_done" /\ task[t].result = "cached"

\* C4: a page's requests that are answered from a cache are all answered from
\* the same cache: a request of a controlled window answered from a cache is
\* answered from the cache that answered the page's earlier requests.
C4_SessionFromOneGeneration ==
    \A t \in Tasks :
        (task[t].kind = "fetch" /\ task[t].pc = "h_done" /\ ServedFromCache(task[t])
           /\ windows[task[t].win].open /\ windows[task[t].win].controlled
           /\ session[task[t].win] # NoName) =>
            task[t].useName = session[task[t].win]

\* C5: every listed cache of this scope holds the root and every file of the
\* manifest it was filled from.
ManifestEntries == {Scope} \cup {ResolveUrl(fl[i]) : fl \in FileLists, i \in 1..2}
C5_NoPartialGeneration ==
    \A i \in 1..Len(cacheKeys) :
        StartsWith(cacheKeys[i].name, GetCacheBaseName) =>
            ManifestEntries \subseteq content[cacheKeys[i].id]

\* C6: a request the worker handles ends with a response, from the cache or
\* from the network, unless its network fetch itself failed.
C6_AlwaysAnswered ==
    \A t \in Tasks :
        (task[t].kind = "fetch" /\ task[t].pc = "h_done") =>
            task[t].result \in {"cached", "network", "network-error"}

\* C7: an update check that found the cache of the manifest's version existing
\* fetches no file, opens no cache and issues no write, changes neither the
\* list of caches nor their entries, and ends having broadcast one message:
\* update-pending when two caches or more are listed, up-to-date otherwise.
Rechecked(t) == task[t].kind = "check" /\ task[t].cacheExists
C7_State ==
    \A t \in Tasks : Rechecked(t) =>
        /\ task[t].fetches = 0 /\ task[t].cache = 0 /\ task[t].pendingPut = {}
        /\ task[t].pc # "u_done" => task[t].posted = <<>>
        /\ task[t].pc = "u_done" =>
             task[t].posted =
               << Msg(IF Len(GetAvailableCacheNames(cacheKeys)) >= 2
                      THEN "update-pending" ELSE "up-to-date", 0) >>
C7_Idempotence ==
    /\ []C7_State
    /\ [][(\E t \in Tasks : Rechecked(t)) => UNCHANGED <<cacheKeys, content>>]_vars
C7_Witness ==
    \E t \in Tasks : /\ Rechecked(t) /\ task[t].pc = "u_done"
                     /\ task[t].posted = <<Msg("update-pending", 0)>>
                     /\ Len(GetAvailableCacheNames(cacheKeys)) = 2

\* C8: a request that missed its cache and is answered from the network has a
\* copy written to the cache (the write attempted, whether or not it succeeds)
\* exactly when its URL matches a pattern of the lazy-load list that was read.
MatchesSomePattern(url, list) ==
    \E i \in 1..Len(list) : RegExpCompiles(list[i]) /\ RegExpTest(list[i], url)
C8_LazyCacheOnMiss ==
    \A t \in Tasks :
        (task[t].kind = "fetch" /\ task[t].pc = "h_done" /\ task[t].avail # <<>>
           /\ task[t].result = "network") =>
            (task[t].stored # "none"
               <=> MatchesSomePattern(task[t].req.url, task[t].lazyRead.list))

\* C9: a request to another origin is never a task of the worker (nothing of
\* HandleFetch or UpdateCheck runs for it), and the fetch event that leaves it
\* to the browser changes nothing of the worker's state.
C9_State ==
    \A t \in Tasks : task[t].req # NoReq => OriginOf(task[t].req.url) = LocationOrigin
C9_CrossOriginPassthrough ==
    /\ []C9_State
    /\ [][(passed' # NoReq /\ passed' # passed) => UNCHANGED prog]_vars
C9_Witness ==
    /\ passed # NoReq /\ passed.mode = "navigate"
    /\ OriginOf(passed.url) = OtherOrigin
    /\ Len(GetAvailableCacheNames(cacheKeys)) = 2
    /\ ControlledCount = 1

\* C10: a check that ran with no other cache of this scope, whose file
\* fetches all answered ok and none of whose storage operations failed, ends
\* with exactly one cache listed, holding the root, the manifest's files and
\* the main page inferred from the open window, with no update pending, and
\* having broadcast downloading and then offline-ready.
QueryMainPage == <<LocationOrigin, "/", "?", "foo=bar">>
ExpectedMainPage(pageUrl) == IF pageUrl = Scope THEN {} ELSE {QueryMainPage}
AloneInScope(t) ==
    \A i \in 1..Len(GetAvailableCacheNames(cacheKeys)) :
        GetAvailableCacheNames(cacheKeys)[i] = GetCacheVersionName(task[t].version)
Populated(t) ==
    /\ task[t].kind = "check" /\ task[t].pc = "u_done"
    /\ task[t].responses # <<>>
    /\ \A i \in 1..Len(task[t].responses) : task[t].responses[i]
    /\ AloneInScope(t)
FirstInstalled(t) ==
    /\ GetAvailableCacheNames(cacheKeys) = <<GetCacheVersionName(task[t].version)>>
    /\ content[VersionCacheId(t)] \in {ManifestEntries, ManifestEntries \cup {QueryMainPage}}
    /\ (task[t].isFirst /\ windows[1].open) =>
          content[VersionCacheId(t)] = ManifestEntries \cup ExpectedMainPage(windows[1].url)
    /\ Len(GetAvailableCacheNames(cacheKeys)) < 2
    /\ Len(task[t].posted) = 2
    /\ task[t].posted[1].type \in {"downloading", "downloading-update"}
    /\ task[t].posted[2] = Msg("offline-ready", 0)
IsSuffix(q, s) == Len(q) <= Len(s) /\ SubSeq(s, Len(s) - Len(q) + 1, Len(s)) = q
DownloadingTypes == {"downloading", "downloading-update"}
ReadyTypes == {"offline-ready", "update-ready"}
C11_State ==
    \A t \in Tasks : task[t].kind = "check" =>
        /\ env.broadcastChannel => IsSuffix(timers, task[t].posted)
        /\ Len(task[t].posted) = 2 =>
             /\ task[t].posted[1].type \in DownloadingTypes
             /\ task[t].posted[2].type \in ReadyTypes
WriteFailed(t) == task[t].kind = "check" /\ task[t].outcome = "write-failed"
C12_WriteFailureRollback ==
    \A t \in Tasks : WriteFailed(t) =>
        /\ task[t].pc \in {"u_rollback", "u_done"}
        /\ task[t].pc = "u_rollback" => task[t].delPending
        /\ task[t].pc = "u_done" =>
             ~HasCache(cacheKeys, GetCacheVersionName(task[t].version))
        /\ \A i \in 1..Len(task[t].posted) : task[t].posted[i].type \notin ReadyTypes
C12_Witness ==
    \E t \in Tasks : /\ WriteFailed(t) /\ task[t].pc = "u_done"
                     /\ Len(task[t].posted) = 1
                     /\ Len(GetAvailableCacheNames(cacheKeys)) = 1

\* ---------------------------------------------------------- interleavings
\* announced: UpdateCheck posts update-ready(version) or offline-ready
RecordAnnounced(t) == announced' = announced \cup {task[t].version}
Still == UNCHANGED <<passed, session>>

\* SpecRace: events interleave at every await.  The host has no localforage
\* and no BroadcastChannel, nothing fails and the manifest has no lazy-load
\* list.  Up to the deployment of the last version the events come one at a
\* time; from then on a fetch event may arrive while another is handled.
RaceRequests ==
    { Req(Scope \o <<"index.html">>, "navigate"), Req(Scope \o <<"a.txt">>, "cors") }
MayArrive == serverVersion = MaxVersion \/ NoEventInFlight

RaceInit ==
    /\ Init
    /\ env = [localforage |-> FALSE, broadcastChannel |-> FALSE]
    /\ windows[1].url = Scope

RaceNext ==
    \/ Deploy /\ NoEventInFlight /\ Still /\ UNCHANGED announced
    \/ InstallEvent /\ Still /\ UNCHANGED announced
    \/ \E req \in RaceRequests, w \in Windows :
         MayArrive /\ FetchEvent(req, w) /\ Still /\ UNCHANGED announced
    \/ \E t \in Tasks : HKeys(t) /\ Still /\ UNCHANGED announced
    \/ \E t \in Tasks : HClients(t) /\ Still /\ UNCHANGED announced
    \/ \E t \in Tasks, v \in Versions :
         HEvict(t, GetCacheVersionName(v)) /\ Still /\ UNCHANGED announced
    \/ \E t \in Tasks : HOpen(t, TRUE) /\ Still /\ UNCHANGED announced
    \/ \E t \in Tasks : HMatch(t) /\ Still /\ UNCHANGED announced
    \/ \E t \in Tasks : HMiss(t, TRUE, TRUE) /\ Still /\ UNCHANGED announced
    \/ \E t \in Tasks : HFinish(t) /\ Still /\ UNCHANGED announced
    \/ \E t \in Tasks, fl \in FileLists :
         UManifest(t, fl, NoList) /\ Still /\ UNCHANGED announced
    \/ \E t \in Tasks : UHas(t) /\ Still /\ UNCHANGED announced
    \/ \E t \in Tasks : UPending(t) /\ Still /\ UNCHANGED announced
    \/ \E t \in Tasks, order \in Orderings(OpenWindows) :
         UMain(t, order) /\ Still /\ UNCHANGED announced
    \/ \E t \in Tasks, responses \in ResponseVectors :
         AllOk(responses) /\ UFetch(t, responses) /\ Still /\ UNCHANGED announced
    \/ \E t \in Tasks : UOpen(t, TRUE) /\ Still /\ UNCHANGED announced
    \/ \E t \in Tasks, i \in 1..4 : UPut(t, i, TRUE) /\ Still /\ UNCHANGED announced
    \/ \E t \in Tasks : UReady(t) /\ RecordAnnounced(t) /\ Still
    \/ \E t \in Tasks : UFinish(t) /\ Still /\ UNCHANGED announced

SpecRace == RaceInit /\ [][RaceNext]_vars

\* C13: the caches of this scope are listed in the order of their versions
\* (the server's versions only grow, so this is the order in which update
\* checks populated them), and the last listed, the one an upgrade keeps, is
\* the cache of the greatest version listed.
VersionOf(cacheName) == cacheName[Len(cacheName)]
C13_CreationOrderIsVersionOrder ==
    LET avail == GetAvailableCacheNames(cacheKeys)
    IN \A i, j \in 1..Len(avail) : i < j => VersionOf(avail[i]) < VersionOf(avail[j])

\* C14: a step of the handling of a request that is not a navigation leaves
\* the names of the caches as they are, and a step that removes a cache name
\* is the eviction of a navigation that found two caches or more and one
\* client at most, removing a cache other than the newest it found.
StepOf(t) == task'[t] # task[t]
NamesOf(keys) == {keys[i].name : i \in 1..Len(keys)}
C14_OnlyNavigationEvicts ==
    [][\A t \in Tasks :
         (StepOf(t) /\ task[t].kind = "fetch") =>
            /\ ~DoUpdateCheck(task[t].req) => NamesOf(cacheKeys') = NamesOf(cacheKeys)
            /\ ~(NamesOf(cacheKeys) \subseteq NamesOf(cacheKeys')) =>
                 /\ DoUpdateCheck(task[t].req)
                 /\ Len(task[t].avail) >= 2 /\ task[t].nclients <= 1
                 /\ NamesOf(cacheKeys) \ NamesOf(cacheKeys')
                      \subseteq CachesToExpire(task[t].avail)]_vars

\* C15: an update check starts at the install event, as the first check, and
\* when the handling of a navigation ends, as a later check, and nowhere
\* else; the handling of every navigation ends by starting one, the handling
\* of any other request by starting none.
StartsCheck(t) == task[t].kind # "check" /\ task'[t].kind = "check"
C15_UpdateCheckTriggers ==
    [][\A t \in Tasks :
         /\ StartsCheck(t) =>
              \/ phase = "parsed" /\ task'[t].isFirst
              \/ /\ task[t].pc = "h_done" /\ DoUpdateCheck(task[t].req)
                 /\ ~task'[t].isFirst
         /\ (StepOf(t) /\ task[t].pc = "h_done") =>
              (StartsCheck(t) <=> DoUpdateCheck(task[t].req))]_vars

\* C16: a check that has ended has posted nothing when the manifest was
\* unavailable; up-to-date or update-pending, alone, when its cache existed;
\* otherwise downloading (first check) or downloading-update(version) (later
\* check), followed when the cache was written by update-ready(version) if
\* two caches or more are listed and by offline-ready if not, and followed by
\* nothing when the populate failed.
PopulateFailures == {"failed", "fetch-rejected", "fetch-failed", "write-failed"}
C16_OrchestratorOutcomes ==
    \A t \in Tasks : (task[t].kind = "check" /\ task[t].pc = "u_done") =>
        LET r == task[t]
            downloading == IF r.isFirst THEN Msg("downloading", 0)
                           ELSE Msg("downloading-update", r.version)
            ready == IF Len(GetAvailableCacheNames(cacheKeys)) >= 2
                     THEN Msg("update-ready", r.version)
                     ELSE Msg("offline-ready", 0)
        IN \/ r.outcome = "manifest-failed" /\ r.posted = <<>>
           \/ /\ r.cacheExists /\ r.outcome \in {"up-to-date", "update-pending"}
              /\ r.posted = <<Msg(r.outcome, 0)>>
           \/ /\ ~r.cacheExists /\ r.outcome \in PopulateFailures
              /\ r.posted = <<downloading>>
           \/ /\ ~r.cacheExists /\ r.outcome \in ReadyTypes
              /\ HasCache(cacheKeys, GetCacheVersionName(r.version))
              /\ r.posted = <<downloading, ready>>
C16_Witness ==
    \E t \in Tasks : /\ task[t].kind = "check" /\ task[t].pc = "u_done"
                     /\ task[t].posted = <<Msg("downloading-update", 2), Msg("update-ready", 2)>>

\* C17: once a check whose manifest has a lazy-load list, on a host with
\* localforage, has found its cache missing and has written the list, the
\* stored list is that manifest's list and nothing of the list stored before.
PastLazyWrite(t) == task[t].kind = "check" /\ task[t].lazy.defined /\ task[t].fetches > 0
C18_MalformedPatternsSkipped ==
    lazyStore.defined =>
        \A req \in SameOriginRequests :
            IsUrlInLazyLoadList(req.url, lazyStore)
               <=> MatchesSomePattern(req.url, lazyStore.list)

\* C19: nothing but the list of caches decides whether a check populates: a
\* check goes on from caches.has to populate exactly when no cache of its
\* version name is listed, whatever other checks are doing, so that two
\* checks can be filling the cache of one name at the same time.
C19_NoMutualExclusion ==
    [][\A t \in Tasks :
         (StepOf(t) /\ task[t].pc = "u_has") =>
            (task'[t].pc = "u_main"
               <=> ~HasCache(cacheKeys, GetCacheVersionName(task[t].version)))]_vars
C19_Witness ==
    \E t, u \in Tasks :
        /\ t # u
        /\ task[t].kind = "check" /\ task[u].kind = "check"
        /\ task[t].version = task[u].version
        /\ task[t].pc = "u_put" /\ task[u].pc = "u_put"
        /\ ~task[t].cacheExists /\ ~task[u].cacheExists
        /\ task[t].cache = task[u].cache
        /\ task[t].pendingPut # {} /\ task[u].pendingPut # {}

\* C20: the cache of a version that was announced by a ready message is
\* listed with the root and every file of the manifest, unless a cache of a
\* newer version is listed (an upgrade evicted it in favour of the newer).
Complete(v) ==
    /\ HasCache(cacheKeys, GetCacheVersionName(v))
    /\ ManifestEntries \subseteq content[CacheIdOf(cacheKeys, GetCacheVersionName(v))]
C20_AnnouncedStayAvailable ==
    \A v \in announced :
        \/ Complete(v)
        \/ \E w \in Versions : w > v /\ HasCache(cacheKeys, GetCacheVersionName(w))
====
